---- MODULE Spec2Model ----
(***************************************************************************)
(* A model of llm-analyser (src/main.py): one invocation of main(), the    *)
(* batch orchestrator DocxAnalyzer.analyze_directory, the worker pool and  *)
(* the file worker process_file.                                           *)
(*                                                                         *)
(* Text is modelled as a sequence of tokens (strings): a literal piece of  *)
(* an f-string is one token, a decimal number is one token per digit, and  *)
(* concatenation is \o.  The empty string "" is the empty sequence.        *)
(***************************************************************************)
EXTENDS Integers, Sequences, FiniteSets, TLC

\* The largest number of files the scan discovers in one run.
MaxFiles == 2

\* os.cpu_count() returns None when the number of CPUs is undetermined.
None == 0 - 1

\* The values os.cpu_count() is drawn from: undetermined, below and at the
\* process-pool threshold, and above the cap on the pool size.
CpuCounts == {None, 1, 4, 9}

\* The model name given with -m (default "llama3.2").
ModelName == <<"llama3.2">>

----------------------------------------------------------------------------
(* Text helpers *)

Last(s) == s[Len(s)]

Front(s) == SubSeq(s, 1, Len(s) - 1)

Contains(s, t) ==
    \E i \in 0..(Len(s) - Len(t)) : SubSeq(s, i + 1, i + Len(t)) = t

StartsWith(s, t) == Len(s) >= Len(t) /\ SubSeq(s, 1, Len(t)) = t

EndsWith(s, t) == Len(s) >= Len(t) /\ SubSeq(s, Len(s) - Len(t) + 1, Len(s)) = t

Digit(d) == <<"0", "1", "2", "3", "4", "5", "6", "7", "8", "9">>[d + 1]

RECURSIVE Str(_)
\* str(n) of a non-negative integer: its decimal digits.
Str(n) == IF n < 10 THEN <<Digit(n)>> ELSE Str(n \div 10) \o <<Digit(n % 10)>>

\* f"{n:02d}": decimal digits, zero-padded on the left to width 2.
Fmt02d(n) == IF Len(Str(n)) < 2 THEN <<"0">> \o Str(n) ELSE Str(n)

RECURSIVE Join(_, _)
\* sep.join(list) for a list of texts.
Join(sep, list) ==
    IF list = <<>> THEN <<>>
    ELSE IF Len(list) = 1 THEN list[1]
    ELSE list[1] \o sep \o Join(sep, Tail(list))

----------------------------------------------------------------------------
(* Paths.  str(path) is a token sequence whose components are separated    *)
(* by the token "/"; the last component is the file name, whose last token *)
(* is its suffix when it has one.                                          *)

Suffixes == {".docx", ".txt"}

\* The index of the last "/" of a path string, 0 when it has none.
LastSlash(s) ==
    LET slashes == {i \in 1..Len(s) : s[i] = "/"}
    IN  IF slashes = {} THEN 0
        ELSE CHOOSE i \in slashes : \A j \in slashes : j <= i

RECURSIVE PathParts(_)
\* Path(s).parts: the components of a path string, split at "/".
PathParts(s) ==
    LET i == LastSlash(s)
    IN  IF i = 0 THEN <<s>>
        ELSE PathParts(SubSeq(s, 1, i - 1)) \o <<SubSeq(s, i + 1, Len(s))>>

\* str(path): the components joined by "/".
PathStr(parts) == Join(<<"/">>, parts)

\* Path(s).name: the final component, the text after the last "/".
PathName(s) == SubSeq(s, LastSlash(s) + 1, Len(s))

\* Path(s).stem: the final component without its last suffix.
PathStem(s) ==
    LET name == PathName(s)
    IN  IF Len(name) > 1 /\ Last(name) \in Suffixes THEN Front(name) ELSE name

----------------------------------------------------------------------------
(* The document extractor (process_file, lines 18-35).  A document is what *)
(* the parsing library returns: the text of each paragraph and, for each   *)
(* table, its rows of cell texts.  The token " " is whitespace; every      *)
(* other token is a word.                                                  *)

RECURSIVE Strip(_)
\* text.strip(): drop the leading and trailing whitespace.
Strip(t) ==
    IF t = <<>> THEN <<>>
    ELSE IF t[1] = " " THEN Strip(Tail(t))
    ELSE IF Last(t) = " " THEN Strip(Front(t))
    ELSE t

RECURSIVE StripNonEmpty(_)
\* [x.strip() for x in texts if x.strip()]
StripNonEmpty(texts) ==
    IF texts = <<>> THEN <<>>
    ELSE (IF Strip(texts[1]) # <<>> THEN <<Strip(texts[1])>> ELSE <<>>)
         \o StripNonEmpty(Tail(texts))

RECURSIVE CountWords(_)
\* len(text.split()): the number of maximal runs of non-whitespace tokens.
CountWords(t) ==
    IF t = <<>> THEN 0
    ELSE (IF t[1] # " " /\ (Len(t) = 1 \/ t[2] = " ") THEN 1 ELSE 0)
         + CountWords(Tail(t))

RECURSIVE TableRows(_)
\* The non-empty rows of one table, each " | ".join of its non-empty cells.
TableRows(rows) ==
    IF rows = <<>> THEN <<>>
    ELSE (IF StripNonEmpty(rows[1]) # <<>>
          THEN <<Join(<<" | ">>, StripNonEmpty(rows[1]))>> ELSE <<>>)
         \o TableRows(Tail(rows))

RECURSIVE TablesContent(_)
\* The non-empty tables, each "\n".join of its rows.
TablesContent(tables) ==
    IF tables = <<>> THEN <<>>
    ELSE (IF TableRows(tables[1]) # <<>>
          THEN <<Join(<<"\n">>, TableRows(tables[1]))>> ELSE <<>>)
         \o TablesContent(Tail(tables))

\* The content dictionary built from a parsed document.
ExtractContent(doc) ==
    LET paragraphs == StripNonEmpty(doc.paragraphs)
    IN  [paragraphs      |-> Join(<<"\n\n">>, paragraphs),
         tables          |-> Join(<<"\n\n">>, TablesContent(doc.tables)),
         word_count      |-> CountWords(Join(<<" ">>, paragraphs)),
         paragraph_count |-> Len(paragraphs)]

\* The empty dictionary {} of an error record.
EmptyContent == [k \in {} |-> 0]

\* dict.get(key, 'N/A') of the content dictionary, formatted in an f-string.
ContentGet(content, key) ==
    IF key \in DOMAIN content THEN Str(content[key]) ELSE <<"N/A">>

\* The documents the parsing library may return for a file: one without
\* paragraph text (a blank paragraph, and tables with blank cells, a blank
\* row and no row), one with text.
DocBlank == [paragraphs |-> << <<" ">> >>,
             tables |-> << << << <<"c1">>, <<" ">>, <<"c2">> >>, << <<>> >> >>, << >> >>]

DocText == [paragraphs |-> << <<" ", "alpha", " ", "beta">>, <<>>, <<"gamma">> >>,
            tables |-> <<>>]

Docs == {DocBlank, DocText}

----------------------------------------------------------------------------
(* The input directory tree *)

\* The paths that may exist under the input directory, in listing order.
TreeOrder == << <<"in", "/", "a", "/", "x", ".docx">>,
                <<"in", "/", "b", "/", "x", ".docx">>,
                <<"in", "/", "y", ".docx">>,
                <<"in", "/", "a", "/", "~$", "x", ".docx">>,
                <<"in", "/", "notes", ".txt">> >>

AllPaths == {TreeOrder[i] : i \in 1..Len(TreeOrder)}

\* A filter on the extension alone: lock files are kept.
IsTarget_NoLockFilter(path) ==
    /\ EndsWith(PathName(path), <<".docx">>)

\* p.name matches "*.docx" and does not start with "~$".
IsTarget(path) ==
    /\ EndsWith(PathName(path), <<".docx">>)
    /\ ~StartsWith(PathName(path), <<"~$">>)

\* The paths of the tree that are not target files: a lock file, a text file.
NonTargets == {path \in AllPaths : ~IsTarget(path)}

RECURSIVE FindIn(_, _)
FindIn(order, present) ==
    IF order = <<>> THEN <<>>
    ELSE (IF order[1] \in present /\ IsTarget(order[1]) THEN <<order[1]>> ELSE <<>>)
         \o FindIn(Tail(order), present)

\* DocxAnalyzer.find_docx_files: the target files present, in listing order.
find_docx_files(present) == FindIn(TreeOrder, present)

----------------------------------------------------------------------------
(* Exceptions and service responses *)

\* str(e) of the exception raised by the creation of the generation client.
ClientError == <<"Failed to create client">>

\* str(e) of the exception raised when a document cannot be opened or parsed.
DocumentError(path) == <<"Package not found at '">> \o path \o <<"'">>

\* str(e) of an exception raised by the generation call; it may be empty.
GenerateErrors == {<<>>, <<"model not found">>}

\* str(KeyError('response')): the response has no 'response' entry.
KeyErrorResponse == <<"'response'">>

EssayText == <<"## Document Overview", "\n", "An essay.">>

\* What the generation call returns when it does not raise.
Responses == {[response |-> EssayText], [response |-> <<>>], [done |-> TRUE]}

\* The value of time.strftime when a report is rendered: one per invocation
\* of the tool, the second later than the first.
TimeOfRun == << <<"2025-01-01 12:00:00">>, <<"2025-01-01 12:30:00">> >>

Times == {TimeOfRun[i] : i \in 1..Len(TimeOfRun)}

----------------------------------------------------------------------------
(* State *)

VARIABLES
    tree,               \* the paths present under the input directory
    dir_exists,         \* os.path.exists(args.directory)
    run,                \* which invocation of the tool this is: 1 or 2
    cpu_count,          \* what os.cpu_count() returns on this machine
    pc,                 \* the position of the main thread
    exc,                \* the exception propagating in the main thread
    exit_code,          \* the exit code of the process, None while it runs
    stdout,             \* the messages printed, in order
    file_counter,       \* DocxAnalyzer.file_counter
    docx_files,         \* the discovered list
    output_dir,         \* TRUE when the run has created the output directory
    outfiles,           \* the output directory: file name -> content
    executor,           \* the pool: its kind and size
    futures,            \* submitted path -> the state of its worker task
    gen_calls,          \* the paths for which client.generate was called
    all_results,        \* the results collected, in order
    result,             \* loop variable: the result being reported
    markdown_filename,  \* loop variable
    markdown_content    \* loop variable

vars == <<tree, dir_exists, cpu_count, run, pc, exc, exit_code, stdout, file_counter, docx_files,
          output_dir, outfiles, executor, futures, gen_calls, all_results,
          result, markdown_filename, markdown_content>>

NoResult == [file_path |-> <<>>]

NoExecutor == [kind |-> "none", max_workers |-> 0]

Init ==
    /\ dir_exists \in BOOLEAN
    /\ cpu_count \in CpuCounts
    /\ run = 1
    \* the directory is missing, or empty, or holds the files that are not
    \* targets beside some target files
    /\ tree \in SUBSET AllPaths
    /\ ~dir_exists => tree = {}
    /\ tree # {} => NonTargets \subseteq tree
    /\ Len(find_docx_files(tree)) <= MaxFiles
    /\ pc = "main"
    /\ exc = "none"
    /\ exit_code = None
    /\ stdout = <<>>
    /\ file_counter = 0
    /\ docx_files = <<>>
    /\ output_dir = FALSE
    /\ outfiles = <<>>
    /\ executor = NoExecutor
    /\ futures = <<>>
    /\ gen_calls = {}
    /\ all_results = <<>>
    /\ result = NoResult
    /\ markdown_filename = <<>>
    /\ markdown_content = <<>>

----------------------------------------------------------------------------
(* process_file: the file worker, run by the pool *)

orch_vars == <<tree, dir_exists, cpu_count, run, pc, exc, exit_code, stdout, file_counter,
               docx_files, output_dir, outfiles, executor, all_results, result,
               markdown_filename, markdown_content>>

Running == {f \in DOMAIN futures : futures[f].state \in {"client", "generating"}}

\* An error record that carries the message as its essay.
ErrorRecord_MessageAsEssay(path, message) ==
    [file_path |-> path, error |-> message, content |-> EmptyContent,
     essay |-> message]

\* The record of the except branch (lines 81-87).
ErrorRecord(path, message) ==
    [file_path |-> path, error |-> message, content |-> EmptyContent, essay |-> <<>>]

\* The record of the normal return (lines 74-79).
SuccessRecord(path, content, essay_text) ==
    [file_path |-> path, content |-> content, essay |-> essay_text]

\* The essay of a document without paragraph text (line 38).
Placeholder(path) == <<"No readable content found in ">> \o PathName(path)

\* A failure boundary that lets the exception through.
Except_Propagates(path, message) == [raises |-> message]

\* What the failure boundary of process_file makes of an exception raised
\* inside the try block (lines 81-87): the task returns an error record.
Except(path, message) == [returns |-> ErrorRecord(path, message)]

NoOutcome == [pending |-> TRUE]

\* No call of the task has raised.
NotRaised == [step |-> "none", message |-> <<>>]

NewFuture ==
    [state |-> "pending", content |-> EmptyContent, outcome |-> NoOutcome,
     raised |-> NotRaised]

\* The task of f ends with an outcome.
Finish(f, outcome) ==
    futures' = [futures EXCEPT ![f] = [@ EXCEPT !.state = "done",
                                                !.outcome = outcome]]

\* The call named step raises inside the try block of the task of f.
Raise(f, step, message) ==
    futures' = [futures EXCEPT ![f] =
                   [@ EXCEPT !.state = "done",
                             !.outcome = Except(f, message),
                             !.raised = [step |-> step, message |-> message]]]

\* A test that also takes table text for content.
HasText_OrTables(content) == content.paragraphs # <<>> \/ content.tables # <<>>

\* Line 37: the document has paragraph text.
HasText(content) == content.paragraphs # <<>>

\* A free worker takes the task and creates the generation client (line 16).
PF_Client(f) ==
    /\ f \in DOMAIN futures
    /\ futures[f].state = "pending"
    /\ Cardinality(Running) < executor.max_workers
    /\ \/ futures' = [futures EXCEPT ![f].state = "client"]
       \/ Raise(f, "client", ClientError)
    /\ UNCHANGED <<orch_vars, gen_calls>>

\* The document is opened and its content extracted (lines 18-38); with
\* paragraph text, the prompt is built and the generation call is made.
PF_Extract(f) ==
    /\ f \in DOMAIN futures
    /\ futures[f].state = "client"
    /\ \/ /\ Raise(f, "document", DocumentError(f))
          /\ UNCHANGED gen_calls
       \/ \E doc \in Docs :
            LET content == ExtractContent(doc)
            IN  IF HasText(content)
                THEN /\ futures' = [futures EXCEPT ![f] =
                            [@ EXCEPT !.state = "generating", !.content = content]]
                     /\ gen_calls' = gen_calls \cup {f}
                ELSE /\ Finish(f, [returns |-> SuccessRecord(f, content, Placeholder(f))])
                     /\ UNCHANGED gen_calls
    /\ UNCHANGED orch_vars

\* A task that counts its own completion in the shared counter.
PF_Generate_Counts(f) ==
    /\ f \in DOMAIN futures
    /\ futures[f].state = "generating"
    /\ \/ \E m \in GenerateErrors : Raise(f, "generate", m)
       \/ \E response \in Responses :
            IF "response" \in DOMAIN response
            THEN Finish(f, [returns |-> SuccessRecord(f, futures[f].content,
                                                      response.response)])
            ELSE Raise(f, "response", KeyErrorResponse)
    /\ file_counter' = file_counter + 1
    /\ UNCHANGED <<tree, dir_exists, cpu_count, run, pc, exc, exit_code, stdout,
                   docx_files, output_dir, outfiles, executor, all_results, result,
                   markdown_filename, markdown_content, gen_calls>>

\* The generation call returns or raises, and the response is read
\* (lines 71-79).
PF_Generate(f) ==
    /\ f \in DOMAIN futures
    /\ futures[f].state = "generating"
    /\ \/ \E m \in GenerateErrors : Raise(f, "generate", m)
       \/ \E response \in Responses :
            IF "response" \in DOMAIN response
            THEN Finish(f, [returns |-> SuccessRecord(f, futures[f].content,
                                                      response.response)])
            ELSE Raise(f, "response", KeyErrorResponse)
    /\ UNCHANGED <<orch_vars, gen_calls>>

\* The file whose generation call never returns, in a run where one hangs:
\* the first file of the discovered list.
Hung(f) == docx_files # <<>> /\ f = docx_files[1]

\* The generation call of a file other than the hung one returns or raises.
PF_GenerateReturns(f) == ~Hung(f) /\ PF_Generate(f)

----------------------------------------------------------------------------
(* main and DocxAnalyzer.analyze_directory: the main thread *)

Say(msg) == stdout' = Append(stdout, msg)

loop_vars == <<result, markdown_filename, markdown_content>>

\* main, lines 163-167: the input directory must exist.
Main ==
    /\ pc = "main"
    /\ IF dir_exists
       THEN /\ pc' = "scan"
            /\ UNCHANGED <<stdout, exit_code>>
       ELSE /\ Say("Error: Directory does not exist")
            /\ exit_code' = 1
            /\ pc' = "exit"
    /\ UNCHANGED <<tree, dir_exists, cpu_count, run, exc, file_counter, docx_files, output_dir,
                   outfiles, executor, futures, gen_calls, all_results, loop_vars>>

\* A scan that treats an empty list as a fatal error.
Scan_NoFilesFatal ==
    /\ pc = "scan"
    /\ docx_files' = find_docx_files(tree)
    /\ IF docx_files' = <<>>
       THEN /\ Say("No .docx files found")
            /\ exit_code' = 1
            /\ pc' = "exit"
       ELSE /\ pc' = "mkdir"
            /\ UNCHANGED <<stdout, exit_code>>
    /\ UNCHANGED <<tree, dir_exists, cpu_count, run, exc, file_counter, output_dir,
                   outfiles, executor, futures, gen_calls, all_results, loop_vars>>

\* A scan after the output directory has been created.
Scan_AfterMkdir ==
    /\ pc = "scan"
    /\ docx_files' = find_docx_files(tree)
    /\ output_dir' = TRUE
    /\ IF docx_files' = <<>>
       THEN /\ Say("No .docx files found")
            /\ exit_code' = 0
            /\ pc' = "exit"
       ELSE /\ pc' = "mkdir"
            /\ UNCHANGED <<stdout, exit_code>>
    /\ UNCHANGED <<tree, dir_exists, cpu_count, run, exc, file_counter, outfiles,
                   executor, futures, gen_calls, all_results, loop_vars>>

\* Lines 99-102: scan; without target files, report and return.
Scan ==
    /\ pc = "scan"
    /\ docx_files' = find_docx_files(tree)
    /\ IF docx_files' = <<>>
       THEN /\ Say("No .docx files found")
            /\ exit_code' = 0
            /\ pc' = "exit"
       ELSE /\ pc' = "mkdir"
            /\ UNCHANGED <<stdout, exit_code>>
    /\ UNCHANGED <<tree, dir_exists, cpu_count, run, exc, file_counter, output_dir, outfiles,
                   executor, futures, gen_calls, all_results, loop_vars>>

\* Lines 104-111: the output directory is resolved and created if absent;
\* mkdir raises when the directory cannot be created.
Mkdir ==
    /\ pc = "mkdir"
    /\ \/ /\ output_dir' = TRUE
          /\ pc' = "pool"
          /\ UNCHANGED exc
       \/ /\ exc' = "OSError"
          /\ pc' = "handler"
          /\ UNCHANGED output_dir
    /\ UNCHANGED <<tree, dir_exists, cpu_count, run, exit_code, stdout, file_counter, docx_files,
                   outfiles, executor, futures, gen_calls, all_results, loop_vars>>

\* Line 113: os.cpu_count() >= 4; the comparison of None with an integer
\* raises TypeError.
use_multiprocessing(p) == p >= 4

\* Line 115: min(os.cpu_count() or 2, 8).
max_workers(p) ==
    LET n == IF p = None THEN 2 ELSE p
    IN  IF n < 8 THEN n ELSE 8

\* Lines 113-121: the pool strategy is chosen and the pool created.
Pool ==
    /\ pc = "pool"
    /\ IF cpu_count = None
       THEN /\ exc' = "TypeError"
            /\ pc' = "handler"
            /\ UNCHANGED <<executor, stdout>>
       ELSE /\ executor' = [kind |-> IF use_multiprocessing(cpu_count)
                                     THEN "process" ELSE "thread",
                            max_workers |-> max_workers(cpu_count)]
            /\ Say(IF use_multiprocessing(cpu_count)
                   THEN "Using multiprocessing" ELSE "Using threading")
            /\ pc' = "dispatch"
            /\ UNCHANGED exc
    /\ UNCHANGED <<tree, dir_exists, cpu_count, run, exit_code, file_counter, docx_files,
                   output_dir, outfiles, futures, gen_calls, all_results, loop_vars>>

\* A dispatch that hands over to the collecting loop after each submission.
Submit_Lazy ==
    /\ pc = "dispatch"
    /\ LET i == Cardinality(DOMAIN futures) + 1
       IN  /\ futures' = (docx_files[i] :> NewFuture) @@ futures
           /\ pc' = "collect"
    /\ UNCHANGED <<tree, dir_exists, cpu_count, run, exc, exit_code, stdout, file_counter,
                   docx_files, output_dir, outfiles, executor, gen_calls,
                   all_results, loop_vars>>

\* Lines 122-125: one task per discovered file is submitted, in list order.
Submit ==
    /\ pc = "dispatch"
    /\ LET i == Cardinality(DOMAIN futures) + 1
       IN  /\ futures' = (docx_files[i] :> NewFuture) @@ futures
           /\ pc' = IF i = Len(docx_files) THEN "collect" ELSE "dispatch"
    /\ UNCHANGED <<tree, dir_exists, cpu_count, run, exc, exit_code, stdout, file_counter,
                   docx_files, output_dir, outfiles, executor, gen_calls,
                   all_results, loop_vars>>

\* A loop that does not remember which results it has taken.
Collected_None == {}

\* The paths whose result the loop has taken.
Collected == {all_results[i].file_path : i \in 1..Len(all_results)}

\* A loop that ends when no finished task is waiting to be collected.
Collect_GivesUp ==
    /\ pc = "collect"
    /\ IF \A f \in DOMAIN futures \ Collected : futures[f].state # "done"
       THEN /\ pc' = "shutdown"
            /\ UNCHANGED <<exc, all_results, result>>
       ELSE \E f \in DOMAIN futures \ Collected :
              /\ futures[f].state = "done"
              /\ IF "returns" \in DOMAIN futures[f].outcome
                 THEN /\ result' = futures[f].outcome.returns
                      /\ all_results' = Append(all_results, result')
                      /\ pc' = "increment"
                      /\ UNCHANGED exc
                 ELSE /\ exc' = "Exception"
                      /\ pc' = "shutdown"
                      /\ UNCHANGED <<all_results, result>>
    /\ UNCHANGED <<tree, dir_exists, cpu_count, run, exit_code, stdout, file_counter, docx_files,
                   output_dir, outfiles, executor, futures, gen_calls,
                   markdown_filename, markdown_content>>

\* Lines 127-129: as_completed yields a finished task, its result is taken
\* (future.result() re-raises what the task raised) and appended; when every
\* task has been yielded the loop and the with block end.
Collect ==
    /\ pc = "collect"
    /\ IF Collected = DOMAIN futures
       THEN /\ pc' = "shutdown"
            /\ UNCHANGED <<exc, all_results, result>>
       ELSE \E f \in DOMAIN futures \ Collected :
              /\ futures[f].state = "done"
              /\ IF "returns" \in DOMAIN futures[f].outcome
                 THEN /\ result' = futures[f].outcome.returns
                      /\ all_results' = Append(all_results, result')
                      /\ pc' = "increment"
                      /\ UNCHANGED exc
                 ELSE /\ exc' = "Exception"
                      /\ pc' = "shutdown"
                      /\ UNCHANGED <<all_results, result>>
    /\ UNCHANGED <<tree, dir_exists, cpu_count, run, exit_code, stdout, file_counter, docx_files,
                   output_dir, outfiles, executor, futures, gen_calls,
                   markdown_filename, markdown_content>>

\* A report named without the counter.
MarkdownFilename_NoCounter(counter, path) ==
    PathStem(path) \o <<"_analysis.md">>

\* A report named before the counter is incremented.
MarkdownFilename_BeforeIncrement(counter, path) ==
    Fmt02d(counter - 1) \o <<"_">> \o PathStem(path) \o <<"_analysis.md">>

\* A report numbered by the position of its file in the discovered list.
MarkdownFilename_ByListPosition(counter, path) ==
    Fmt02d(CHOOSE i \in 1..Len(docx_files) : docx_files[i] = path)
    \o <<"_">> \o PathStem(path) \o <<"_analysis.md">>

\* Line 133: f"{counter:02d}_{stem}_analysis.md".
MarkdownFilename(counter, path) ==
    Fmt02d(counter) \o <<"_">> \o PathStem(path) \o <<"_analysis.md">>

ErrorMarker == <<"# Error: ">>

\* An error report that leaves the message out.
ErrorReport_NoMessage(res) ==
    ErrorMarker \o <<"\n\nFile: ">> \o PathStr(PathParts(res.file_path)) \o <<"\n">>

\* An error report that names the file without its directory.
ErrorReport_NameOnly(res) ==
    ErrorMarker \o res.error \o <<"\n\nFile: ">> \o PathName(res.file_path)
    \o <<"\n">>

\* Line 137: the report of a result that carries an error.
ErrorReport(res) ==
    ErrorMarker \o res.error \o <<"\n\nFile: ">> \o PathStr(PathParts(res.file_path))
    \o <<"\n">>

\* Lines 139-145: the header block of a normal report.
Metadata(res, now) ==
    <<"# Document Analysis for ">> \o PathName(res.file_path) \o <<"\n\n">>
    \o <<"**Analysis Date:** ">> \o now \o <<"\n">>
    \o <<"**Word Count:** ">> \o ContentGet(res.content, "word_count") \o <<"\n">>
    \o <<"**Paragraph Count:** ">> \o ContentGet(res.content, "paragraph_count")
    \o <<"\n\n">> \o <<"---\n\n">>

\* A footer that does not name the model.
Footer_NoModel(model_name) == <<"\n\n---\n\n*Generated using Ollama*">>

\* Line 146: the footer naming the model.
Footer(model_name) ==
    <<"\n\n---\n\n*Generated using Ollama model: ">> \o model_name \o <<"*">>

\* Lines 136-146: the content of the report of one result.
MarkdownContent(res, model_name, now) ==
    IF "error" \in DOMAIN res
    THEN ErrorReport(res)
    ELSE Metadata(res, now) \o res.essay \o Footer(model_name)

\* Lines 131-146: the counter is incremented, the report named and rendered.
Increment ==
    /\ pc = "increment"
    /\ file_counter' = file_counter + 1
    /\ markdown_filename' = MarkdownFilename(file_counter', result.file_path)
    /\ markdown_content' = MarkdownContent(result, ModelName, TimeOfRun[run])
    /\ pc' = "open"
    /\ UNCHANGED <<tree, dir_exists, cpu_count, run, exc, exit_code, stdout, docx_files, output_dir,
                   outfiles, executor, futures, gen_calls, all_results, result>>

\* A report file opened for appending: an existing file keeps its content.
Open_Append ==
    /\ pc = "open"
    /\ \/ /\ outfiles' = outfiles @@ (markdown_filename :> <<>>)
          /\ pc' = "write"
          /\ UNCHANGED exc
       \/ /\ exc' = "OSError"
          /\ pc' = "shutdown"
          /\ UNCHANGED outfiles
    /\ UNCHANGED <<tree, dir_exists, cpu_count, run, exit_code, stdout, file_counter,
                   docx_files, output_dir, executor, futures, gen_calls, all_results,
                   loop_vars>>

\* Line 148: the report file is created or truncated; open may raise.
Open ==
    /\ pc = "open"
    /\ \/ /\ outfiles' = (markdown_filename :> <<>>) @@ outfiles
          /\ pc' = "write"
          /\ UNCHANGED exc
       \/ /\ exc' = "OSError"
          /\ pc' = "shutdown"
          /\ UNCHANGED outfiles
    /\ UNCHANGED <<tree, dir_exists, cpu_count, run, exit_code, stdout, file_counter, docx_files,
                   output_dir, executor, futures, gen_calls, all_results, loop_vars>>

\* Lines 149-151: the content is written, the file closed, progress printed.
Write ==
    /\ pc = "write"
    /\ outfiles' = [outfiles EXCEPT ![markdown_filename] = @ \o markdown_content]
    /\ Say("Processed")
    /\ pc' = "collect"
    /\ UNCHANGED <<tree, dir_exists, cpu_count, run, exc, exit_code, file_counter, docx_files,
                   output_dir, executor, futures, gen_calls, all_results, loop_vars>>

\* Line 121, the end of the with block: the pool is shut down, waiting for
\* every submitted task; then the block's exception, if any, propagates.
Shutdown ==
    /\ pc = "shutdown"
    /\ \A f \in DOMAIN futures : futures[f].state = "done"
    /\ pc' = IF exc = "none" THEN "summary" ELSE "handler"
    /\ UNCHANGED <<tree, dir_exists, cpu_count, run, exc, exit_code, stdout, file_counter,
                   docx_files, output_dir, outfiles, executor, futures, gen_calls,
                   all_results, loop_vars>>

\* Line 153: the completion summary; analyze_directory and main return.
Summary ==
    /\ pc = "summary"
    /\ Say("Analysis complete")
    /\ exit_code' = 0
    /\ pc' = "exit"
    /\ UNCHANGED <<tree, dir_exists, cpu_count, run, exc, file_counter, docx_files, output_dir,
                   outfiles, executor, futures, gen_calls, all_results, loop_vars>>

\* A try block without the clause for KeyboardInterrupt: the interrupt ends
\* the process with a traceback.
Handler_NoInterruptClause ==
    /\ pc = "handler"
    /\ IF exc = "KeyboardInterrupt"
       THEN /\ Say("Traceback")
            /\ exit_code' = 1
       ELSE /\ Say("Error during analysis")
            /\ exit_code' = 1
    /\ pc' = "exit"
    /\ UNCHANGED <<tree, dir_exists, cpu_count, run, exc, file_counter, docx_files,
                   output_dir, outfiles, executor, futures, gen_calls, all_results,
                   loop_vars>>

\* main, lines 171-175: the handlers of the try block.
Handler ==
    /\ pc = "handler"
    /\ IF exc = "KeyboardInterrupt"
       THEN /\ Say("Analysis interrupted by user")
            /\ exit_code' = 0
       ELSE /\ Say("Error during analysis")
            /\ exit_code' = 1
    /\ pc' = "exit"
    /\ UNCHANGED <<tree, dir_exists, cpu_count, run, exc, file_counter, docx_files, output_dir,
                   outfiles, executor, futures, gen_calls, all_results, loop_vars>>

InAnalyze == {"scan", "mkdir", "pool", "summary"}

InWithBlock == {"dispatch", "collect", "increment", "open", "write"}

\* An external interrupt (one in a run) raises KeyboardInterrupt in the main
\* thread: inside the with block the pool is shut down first; during the
\* shutdown it ends the wait.
Interrupt ==
    /\ pc \in InAnalyze \cup InWithBlock \cup {"shutdown"}
    /\ exc # "KeyboardInterrupt"
    /\ exc' = "KeyboardInterrupt"
    /\ pc' = IF pc \in InWithBlock THEN "shutdown" ELSE "handler"
    /\ UNCHANGED <<tree, dir_exists, cpu_count, run, exit_code, stdout, file_counter, docx_files,
                   output_dir, outfiles, executor, futures, gen_calls, all_results,
                   loop_vars>>

Next ==
    \/ Main
    \/ Scan
    \/ Mkdir
    \/ Pool
    \/ Submit
    \/ Collect
    \/ Increment
    \/ Open
    \/ Write
    \/ Shutdown
    \/ Summary
    \/ Handler
    \/ Interrupt
    \/ \E f \in AllPaths : PF_Client(f)
    \/ \E f \in AllPaths : PF_Extract(f)
    \/ \E f \in AllPaths : PF_Generate(f)

Spec == Init /\ [][Next]_vars

\* A run that no interrupt reaches.
NextUninterrupted ==
    \/ Main
    \/ Scan
    \/ Mkdir
    \/ Pool
    \/ Submit
    \/ Collect
    \/ Increment
    \/ Open
    \/ Write
    \/ Shutdown
    \/ Summary
    \/ Handler
    \/ \E f \in AllPaths : PF_Client(f)
    \/ \E f \in AllPaths : PF_Extract(f)
    \/ \E f \in AllPaths : PF_Generate(f)

\* The main thread runs on while it can, the pool runs every task it has a
\* free worker for, and every call of a task returns or raises.
FairSpec ==
    /\ Init
    /\ [][NextUninterrupted]_vars
    /\ WF_vars(Main \/ Scan \/ Mkdir \/ Pool \/ Submit \/ Collect \/ Increment
               \/ Open \/ Write \/ Shutdown \/ Summary \/ Handler)
    /\ \A f \in AllPaths :
         WF_vars(PF_Client(f)) /\ WF_vars(PF_Extract(f)) /\ WF_vars(PF_Generate(f))

\* A run that no interrupt reaches and in which the generation call of one
\* file never returns (line 71 sets no timeout).
NextHung ==
    \/ Main
    \/ Scan
    \/ Mkdir
    \/ Pool
    \/ Submit
    \/ Collect
    \/ Increment
    \/ Open
    \/ Write
    \/ Shutdown
    \/ Summary
    \/ Handler
    \/ \E f \in AllPaths : PF_Client(f)
    \/ \E f \in AllPaths : PF_Extract(f)
    \/ \E f \in AllPaths : PF_GenerateReturns(f)

\* The runs in which a pool is created: the input directory exists and the
\* parallelism is detected, one CPU (a thread pool of one worker) or four (a
\* process pool of four).
InitHung == Init /\ dir_exists /\ cpu_count \in {1, 4}

\* Fair scheduling of everything but the call that hangs.
SpecHung ==
    /\ InitHung
    /\ [][NextHung]_vars
    /\ WF_vars(Main \/ Scan \/ Mkdir \/ Pool \/ Submit \/ Collect \/ Increment
               \/ Open \/ Write \/ Shutdown \/ Summary \/ Handler)
    /\ \A f \in AllPaths :
         WF_vars(PF_Client(f)) /\ WF_vars(PF_Extract(f))
         /\ WF_vars(PF_GenerateReturns(f))

\* After a complete run the tool is invoked again on the same input
\* directory with the same output directory: a new process, a new
\* DocxAnalyzer with file_counter = 0 (line 92); the files stay.
Rerun ==
    /\ run = 1
    /\ pc = "exit"
    /\ exit_code = 0
    /\ Len(stdout) > 0 /\ Last(stdout) = "Analysis complete"
    /\ run' = 2
    /\ pc' = "main"
    /\ exc' = "none"
    /\ exit_code' = None
    /\ stdout' = <<>>
    /\ file_counter' = 0
    /\ docx_files' = <<>>
    /\ executor' = NoExecutor
    /\ futures' = <<>>
    /\ gen_calls' = {}
    /\ all_results' = <<>>
    /\ result' = NoResult
    /\ markdown_filename' = <<>>
    /\ markdown_content' = <<>>
    /\ UNCHANGED <<tree, dir_exists, cpu_count, output_dir, outfiles>>

\* Two consecutive complete runs on the same two documents, on a
\* machine with four CPUs.
InitTwice ==
    /\ Init
    /\ dir_exists
    /\ cpu_count = 4
    /\ Len(find_docx_files(tree)) = 2

NextTwice == NextUninterrupted \/ Rerun

SpecTwice == InitTwice /\ [][NextTwice]_vars

----------------------------------------------------------------------------
(* Properties *)

\* The reports whose content has been written.
ReportsWritten == {n \in DOMAIN outfiles : outfiles[n] # <<>>}

SummaryPrinted == \E i \in 1..Len(stdout) : stdout[i] = "Analysis complete"

\* The run has reached Done: the loop and the pool have ended normally.
AtDone == pc = "summary" \/ SummaryPrinted

Interrupted == exc = "KeyboardInterrupt"

DigitTokens == {Digit(d) : d \in 0..9}

DigitValue(t) == CHOOSE d \in 0..9 : Digit(d) = t

RECURSIVE ParseInt(_)
ParseInt(ds) == IF ds = <<>> THEN 0 ELSE 10 * ParseInt(Front(ds)) + DigitValue(Last(ds))

RECURSIVE LeadingDigits(_)
LeadingDigits(name) ==
    IF name = <<>> \/ name[1] \notin DigitTokens THEN <<>>
    ELSE <<name[1]>> \o LeadingDigits(Tail(name))

\* The number a report name starts with.
CounterPrefix(name) == ParseInt(LeadingDigits(name))

\* C1: when a run that discovered N > 0 files reaches Done, exactly N report
\* files have been written, whatever the completion order and whichever
\* tasks failed.
C1_ExactlyNReports ==
    AtDone =>
        /\ Len(docx_files) > 0
        /\ Cardinality(DOMAIN outfiles) = Len(docx_files)
        /\ Cardinality(ReportsWritten) = Len(docx_files)

\* Done is reached with two files, one of them failed, collected in the
\* reverse of the submission order.
C1_Witness ==
    /\ SummaryPrinted
    /\ Len(docx_files) = 2
    /\ all_results[1].file_path = docx_files[2]
    /\ \E f \in DOMAIN futures : futures[f].raised.step # "none"
    /\ \E f \in DOMAIN futures : futures[f].raised.step = "none"

\* C2: in every state the counter prefixes of the reports written so far
\* are exactly 1..k for k reports: from 1, no gap, no repeat.
C2_ContiguousPrefixes ==
    /\ {CounterPrefix(n) : n \in DOMAIN outfiles} = 1..Cardinality(DOMAIN outfiles)
    /\ {CounterPrefix(n) : n \in ReportsWritten} = 1..Cardinality(ReportsWritten)
    /\ \A n \in DOMAIN outfiles : LeadingDigits(n) = Fmt02d(CounterPrefix(n))

\* Two reports are written, the first for the file submitted second, and an
\* interrupt has arrived.
C2_Witness ==
    /\ Cardinality(ReportsWritten) = 2
    /\ all_results[1].file_path = docx_files[2]
    /\ Interrupted

\* What the call that raised in a finished task made known.
RaisedMessageOk(f) ==
    LET r == futures[f].raised
    IN  \/ r.step = "client" /\ r.message = ClientError
        \/ r.step = "document" /\ r.message = DocumentError(f)
        \/ r.step = "generate" /\ r.message \in GenerateErrors
        \/ r.step = "response" /\ r.message = KeyErrorResponse

\* C3: a finished task has always returned a record, never raised; when a
\* step of the task raised, the record's error is the exception's message
\* and its content and essay are empty.
C3_WorkerAlwaysReturns ==
    \A f \in DOMAIN futures :
        futures[f].state = "done" =>
            /\ "returns" \in DOMAIN futures[f].outcome
            /\ futures[f].outcome.returns.file_path = f
            /\ futures[f].raised.step # "none" =>
                 /\ RaisedMessageOk(f)
                 /\ "error" \in DOMAIN futures[f].outcome.returns
                 /\ futures[f].outcome.returns.error = futures[f].raised.message
                 /\ futures[f].outcome.returns.content = EmptyContent
                 /\ futures[f].outcome.returns.essay = <<>>

\* Every step of the sequence has raised in some task of the run's history:
\* here the reading of the response in one task and the document in another.
C3_Witness ==
    /\ \E f \in DOMAIN futures :
         futures[f].state = "done" /\ futures[f].raised.step = "response"
    /\ \E f \in DOMAIN futures :
         futures[f].state = "done" /\ futures[f].raised.step = "document"

\* The name and the content of the report of the k-th collected result.
ReportName(k) == MarkdownFilename(k, all_results[k].file_path)

HasReport(k) ==
    LET name == ReportName(k)
    IN  name \in DOMAIN outfiles /\ outfiles[name] # <<>>

Report(k) == outfiles[ReportName(k)]

RaisedIn(f) == futures[f].raised.step

\* C4: the report of a file whose generation call failed begins with the
\* error marker followed by the failure message verbatim; the other files of
\* the batch that did not fail get normal reports, and the batch runs on to
\* Done with a report for every file.
C4_GenerationFailureIsolated ==
    /\ \A k \in 1..Len(all_results) :
         HasReport(k) =>
            LET f == all_results[k].file_path
            IN  /\ RaisedIn(f) = "generate" =>
                     StartsWith(Report(k), <<"# Error: ">> \o futures[f].raised.message)
                /\ RaisedIn(f) = "none" =>
                     /\ ~StartsWith(Report(k), <<"# Error: ">>)
                     /\ StartsWith(Report(k), <<"# Document Analysis for ">>)
    /\ exc # "Exception"
    /\ AtDone => \A k \in 1..Len(docx_files) : HasReport(k)

\* Of two files, the generation of one failed with a message and the other
\* got an essay; both reports are written and the run is at Done.
C4_Witness ==
    /\ AtDone
    /\ \E k \in 1..Len(all_results) :
         /\ HasReport(k)
         /\ RaisedIn(all_results[k].file_path) = "generate"
         /\ futures[all_results[k].file_path].raised.message # <<>>
    /\ \E k \in 1..Len(all_results) :
         /\ HasReport(k)
         /\ all_results[k].file_path \in gen_calls
         /\ RaisedIn(all_results[k].file_path) = "none"
         /\ all_results[k].essay = EssayText

\* C5: for a file whose extraction failed the generation service is never
\* called, and its report begins with the error marker and contains the
\* original path of the file.
C5_ExtractionFailure ==
    /\ \A f \in DOMAIN futures : RaisedIn(f) = "document" => f \notin gen_calls
    /\ \A k \in 1..Len(all_results) :
         (HasReport(k) /\ RaisedIn(all_results[k].file_path) = "document") =>
            /\ StartsWith(Report(k), <<"# Error: ">>)
            /\ EndsWith(Report(k), <<"\n\nFile: ">> \o all_results[k].file_path
                                   \o <<"\n">>)

\* The report of a file in a subdirectory whose extraction failed is written.
C5_Witness ==
    \E k \in 1..Len(all_results) :
        /\ HasReport(k)
        /\ RaisedIn(all_results[k].file_path) = "document"
        /\ Len(PathParts(all_results[k].file_path)) > 2

\* C6: the generation service is called only for a document with paragraph
\* text; a file whose paragraph text is empty gets the placeholder as its
\* essay, and its report contains the placeholder phrasing.
C6_EmptyTextPlaceholder ==
    /\ \A f \in gen_calls : futures[f].content.paragraphs # <<>>
    /\ \A k \in 1..Len(all_results) :
         ("error" \notin DOMAIN all_results[k]
            /\ all_results[k].content.paragraphs = <<>>) =>
            /\ all_results[k].file_path \notin gen_calls
            /\ HasReport(k) =>
                 Contains(Report(k), <<"No readable content found in ">>
                                     \o PathName(all_results[k].file_path))

\* The report of a document with table text and no paragraph text is written.
C6_Witness ==
    \E k \in 1..Len(all_results) :
        /\ HasReport(k)
        /\ "error" \notin DOMAIN all_results[k]
        /\ all_results[k].content.paragraphs = <<>>
        /\ all_results[k].content.tables # <<>>

\* The records returned by the finished tasks.
Returned ==
    {futures[f].outcome.returns :
        f \in {g \in DOMAIN futures : /\ futures[g].state = "done"
                                      /\ "returns" \in DOMAIN futures[g].outcome}}

\* C7 as stated: every record has either an error and an empty essay, or no
\* error and an essay that holds text.
C7_ErrorXorEssayText ==
    \A r \in Returned :
        \/ "error" \in DOMAIN r /\ r.essay = <<>>
        \/ "error" \notin DOMAIN r /\ r.essay # <<>>

\* C7, amended: every record has either an error and an empty essay, or no
\* error and as essay the placeholder (which is never empty) when the
\* generation service was not called, else the text of the service's
\* response, which may be empty.
C7_ErrorXorEssay ==
    \A r \in Returned :
        \/ "error" \in DOMAIN r /\ r.essay = <<>>
        \/ /\ "error" \notin DOMAIN r
           /\ r.file_path \notin gen_calls
           /\ r.essay # <<>>
           /\ StartsWith(r.essay, <<"No readable content found in ">>)
        \/ /\ "error" \notin DOMAIN r
           /\ r.file_path \in gen_calls
           /\ \E response \in Responses :
                "response" \in DOMAIN response /\ r.essay = response.response

\* Records of all three kinds have been returned, among them one for an
\* empty response of the generation service.
C7_Witness ==
    /\ \E r \in Returned : "error" \in DOMAIN r /\ r.error # <<>>
    /\ \E r \in Returned :
         "error" \notin DOMAIN r /\ r.file_path \in gen_calls /\ r.essay = <<>>

\* C8 as stated: every written report has the header block, then the essay
\* or the error block, then the footer naming the model.
C8_HeaderBodyFooter ==
    \A k \in 1..Len(all_results) :
        HasReport(k) =>
            /\ StartsWith(Report(k), <<"# Document Analysis for ">>)
            /\ Contains(Report(k), <<"**Analysis Date:** ">>)
            /\ Contains(Report(k), <<"**Word Count:** ">>)
            /\ Contains(Report(k), <<"**Paragraph Count:** ">>)
            /\ EndsWith(Report(k), <<"\n\n---\n\n*Generated using Ollama model: ">>
                                   \o ModelName \o <<"*">>)

\* C8, amended: a written report that carries an essay is the header block
\* (title, analysis date, word count, paragraph count, separator), the essay
\* and the footer naming the model; a written error report is the error
\* block alone (marker, message, file path), without header or footer.
C8_ReportLayout ==
    \A k \in 1..Len(all_results) :
        HasReport(k) =>
            LET res == all_results[k]
            IN  IF "error" \in DOMAIN res
                THEN Report(k) = <<"# Error: ">> \o res.error \o <<"\n\nFile: ">>
                                 \o res.file_path \o <<"\n">>
                ELSE \E now \in Times :
                       Report(k) =
                          <<"# Document Analysis for ">> \o PathName(res.file_path)
                          \o <<"\n\n", "**Analysis Date:** ">> \o now
                          \o <<"\n", "**Word Count:** ">> \o Str(res.content.word_count)
                          \o <<"\n", "**Paragraph Count:** ">>
                          \o Str(res.content.paragraph_count)
                          \o <<"\n\n", "---\n\n">> \o res.essay
                          \o <<"\n\n---\n\n*Generated using Ollama model: ">>
                          \o ModelName \o <<"*">>

\* An error report and a report with an essay are both written.
C8_Witness ==
    /\ \E k \in 1..Len(all_results) : HasReport(k) /\ "error" \in DOMAIN all_results[k]
    /\ \E k \in 1..Len(all_results) :
         /\ HasReport(k)
         /\ "error" \notin DOMAIN all_results[k]
         /\ all_results[k].content.word_count = 3

\* C9: the pool is process-based if the detected parallelism p is at least
\* 4 and thread-based otherwise, of size min(p, 8); with p undetermined the
\* run still goes on to dispatch, with a pool of size 2.
C9_PoolSelection ==
    /\ executor # NoExecutor =>
         /\ executor.kind = IF cpu_count # None /\ cpu_count >= 4
                            THEN "process" ELSE "thread"
         /\ executor.max_workers = IF cpu_count = None THEN 2
                                   ELSE IF cpu_count < 8 THEN cpu_count ELSE 8
    /\ cpu_count = None =>
         /\ exc # "TypeError"
         /\ pc \in {"dispatch", "collect"} => executor.max_workers = 2

\* C10: once an interrupt has arrived, no further result is collected, the
\* counter is not incremented and no report file is created or written,
\* whatever the dispatched tasks still do; the run then ends with the
\* interruption message and exit code 0.
C10_InterruptStopsCollecting ==
    [][/\ Interrupted =>
            /\ all_results' = all_results
            /\ file_counter' = file_counter
            /\ outfiles' = outfiles
       /\ (Interrupted' /\ pc' = "exit") =>
            /\ exit_code' = 0
            /\ Last(stdout') = "Analysis interrupted by user"]_vars

\* The interrupt arrived in Collecting after the first of two results was
\* reported; the other task has completed since, and the run has ended.
C10_Witness ==
    /\ pc = "exit"
    /\ Interrupted
    /\ Cardinality(DOMAIN futures) = 2
    /\ \A f \in DOMAIN futures : futures[f].state = "done"
    /\ Len(all_results) = 1
    /\ Cardinality(ReportsWritten) = 1

\* C11: the exit code is 1 exactly when the input directory does not exist
\* or an exception other than a user interrupt escapes the batch run; it is
\* 0 after normal completion, after a scan without target files and after
\* an interruption by the user.
C11_ExitCode ==
    /\ pc # "exit" => exit_code = None
    /\ pc = "exit" =>
         /\ exit_code \in {0, 1}
         /\ exit_code = 1 <=> (~dir_exists \/ exc \in {"OSError", "TypeError", "Exception"})
         /\ exit_code = 0 <=>
              \/ Last(stdout) = "Analysis complete"
              \/ Last(stdout) = "No .docx files found"
              \/ Last(stdout) = "Analysis interrupted by user"

\* A run has ended with exit code 1 because open() raised after the first
\* report was written.
C11_Witness ==
    /\ pc = "exit"
    /\ exit_code = 1
    /\ exc = "OSError"
    /\ Cardinality(ReportsWritten) = 1

\* The scan has been made.
Scanned ==
    \/ docx_files # <<>>
    \/ \E i \in 1..Len(stdout) : stdout[i] = "No .docx files found"

\* C12: with no target file under the input directory, the run never
\* creates the output directory or a pool, dispatches no task and writes no
\* report; it leaves Scanning for its end, where it has printed the
\* no-files-found message and nothing else, and returns normally.
C12_NoFilesNoEffect ==
    (dir_exists /\ \A path \in tree : ~IsTarget(path)) =>
        /\ output_dir = FALSE
        /\ executor = NoExecutor
        /\ futures = <<>>
        /\ outfiles = <<>>
        /\ file_counter = 0
        /\ pc \in {"main", "scan", "handler", "exit"}
        /\ Scanned => /\ pc = "exit"
                      /\ exit_code = 0
                      /\ stdout = <<"No .docx files found">>

\* The run over a directory that holds only a lock file and a text file has
\* ended by returning from the scan.
C12_Witness ==
    /\ tree = NonTargets
    /\ tree # {}
    /\ Scanned
    /\ pc = "exit"

\* The tokens a report starts with.
ReportHeads == {"# Error: ", "# Document Analysis for "}

\* The number of reports a file holds.
ReportsIn(text) == Cardinality({i \in 1..Len(text) : text[i] \in ReportHeads})

\* C13: after two consecutive complete runs on the same input with the same
\* output directory, every report name the second run produced (so every
\* name both runs produced) is one file that holds the second run's report
\* and nothing else, and every file of the directory holds one report: a
\* report is overwritten, never appended to.
C13_RerunOverwrites ==
    (run = 2 /\ SummaryPrinted) =>
        /\ \A k \in 1..Len(all_results) :
             /\ ReportName(k) \in DOMAIN outfiles
             /\ Report(k) = MarkdownContent(all_results[k], ModelName, TimeOfRun[2])
             /\ "error" \notin DOMAIN all_results[k] =>
                  /\ Contains(Report(k), TimeOfRun[2])
                  /\ ~Contains(Report(k), TimeOfRun[1])
        /\ \A n \in DOMAIN outfiles : ReportsIn(outfiles[n]) = 1
        /\ Cardinality(DOMAIN outfiles) <= 2 * Len(docx_files)

\* Both runs are complete and produced the same two names; the files hold
\* the essays of the second run.
C13_Witness ==
    /\ run = 2
    /\ SummaryPrinted
    /\ Cardinality(DOMAIN outfiles) = 2
    /\ \A k \in 1..Len(all_results) : all_results[k].essay = EssayText

\* A file whose name starts with the lock-file prefix.
IsLockFile(path) == PathName(path)[1] = "~$"

HasTargetExtension(path) == Last(path) = ".docx"

\* C14: a lock file is never in the discovered list, tasks exist only for
\* discovered files and results only for tasks, and no report name holds
\* the lock-file prefix, whatever the depth of the file in the tree; once
\* the directory is scanned and has target files, the discovered list is
\* exactly the files of the tree with the target extension that are not lock
\* files.
C14_LockFilesExcluded ==
    /\ \A i \in 1..Len(docx_files) : ~IsLockFile(docx_files[i])
    /\ DOMAIN futures \subseteq {docx_files[i] : i \in 1..Len(docx_files)}
    /\ \A k \in 1..Len(all_results) : all_results[k].file_path \in DOMAIN futures
    /\ \A n \in DOMAIN outfiles : \A i \in 1..Len(n) : n[i] # "~$"
    /\ docx_files # <<>> =>
         {docx_files[i] : i \in 1..Len(docx_files)}
             = {path \in tree : HasTargetExtension(path) /\ ~IsLockFile(path)}

\* The tree holds a lock file in a subdirectory and two documents at
\* different depths; both documents have a report.
C14_Witness ==
    /\ \E path \in tree : IsLockFile(path) /\ Len(PathParts(path)) = 3
    /\ Len(docx_files) = 2
    /\ Len(PathParts(docx_files[1])) # Len(PathParts(docx_files[2]))
    /\ Cardinality(ReportsWritten) = 2

\* The discovered files, as a set.
Discovered == {docx_files[i] : i \in 1..Len(docx_files)}

\* The orchestrator is in the collecting loop.
InCollecting == pc \in {"collect", "increment", "open", "write"}

\* C15: tasks are submitted for discovered files only, one per file, and
\* whenever the orchestrator is in the collecting loop, has collected a
\* result or has created a report file, a task has been submitted for every
\* one of the N discovered files.
C15_FullFanOutFirst ==
    /\ DOMAIN futures \subseteq Discovered
    /\ pc = "dispatch" => all_results = <<>> /\ outfiles = <<>> /\ file_counter = 0
    /\ (InCollecting \/ all_results # <<>> \/ outfiles # <<>>) =>
          /\ DOMAIN futures = Discovered
          /\ Cardinality(DOMAIN futures) = Len(docx_files)

\* The first result of a batch of two has just been collected, while the
\* other task, submitted before it, has not finished.
C15_Witness ==
    /\ Len(docx_files) = 2
    /\ Len(all_results) = 1
    /\ pc = "increment"
    /\ \E f \in DOMAIN futures : futures[f].state # "done"

\* A step of a worker task: the task of some file changes.
WorkerStep == futures' # futures /\ DOMAIN futures' = DOMAIN futures

\* C16: the counter is changed only by the increment of the collecting
\* loop, by one, and the output files only by the loop's open and write;
\* every step of a worker task, under either kind of pool, leaves the
\* counter, the output directory and the collected results unchanged; so
\* the counter is always the number of results collected, less the one just
\* taken when the loop has not counted it yet or was interrupted before it
\* did.
C16_OnlyCollectingLoopCounts ==
    /\ [](/\ file_counter \in {Len(all_results) - 1, Len(all_results)}
          /\ file_counter = Len(all_results) - 1 =>
                pc = "increment" \/ Interrupted)
    /\ [][/\ file_counter' # file_counter =>
               /\ pc = "increment"
               /\ file_counter' = file_counter + 1
               /\ futures' = futures
          /\ outfiles' # outfiles =>
               /\ pc \in {"open", "write"}
               /\ futures' = futures
          /\ WorkerStep =>
               /\ file_counter' = file_counter
               /\ outfiles' = outfiles
               /\ all_results' = all_results
               /\ pc' = pc]_vars

\* The first result of a process pool has been counted while the task of
\* another file is still in its generation call.
C16_Witness ==
    /\ file_counter = 1
    /\ pc = "open"
    /\ executor.kind = "process"
    /\ \E f \in DOMAIN futures : futures[f].state = "generating"

\* The name of the report of the k-th result collected.
NameAtPosition(k) ==
    Fmt02d(k) \o <<"_">> \o PathStem(all_results[k].file_path) \o <<"_analysis.md">>

\* The position of a file in the discovered list.
ListPosition(path) == CHOOSE i \in 1..Len(docx_files) : docx_files[i] = path

\* C17: every report file is named with the position at which its result
\* was collected, 1 for the first, and belongs to a task that has completed;
\* every result counted so far, but the one whose file is about to be
\* opened, has its file under that number.
C17_NumberIsCollectionPosition ==
    LET names == [k \in 1..file_counter |-> NameAtPosition(k)]
    IN  /\ file_counter <= Len(all_results)
        /\ \A n \in DOMAIN outfiles : \E k \in 1..file_counter : n = names[k]
        /\ \A k \in 1..file_counter :
              /\ futures[all_results[k].file_path].state = "done"
              /\ (k < file_counter \/ pc = "write") => names[k] \in DOMAIN outfiles

\* The file submitted second was collected first and has number 01, the
\* file submitted first has number 02, both reports are written and the run
\* is complete.
C17_Witness ==
    /\ SummaryPrinted
    /\ Len(all_results) = 2
    /\ ListPosition(all_results[1].file_path) = 2
    /\ ListPosition(all_results[2].file_path) = 1
    /\ outfiles[NameAtPosition(1)] # <<>>
    /\ outfiles[NameAtPosition(2)] # <<>>
    /\ NameAtPosition(1)[1] = "0" /\ NameAtPosition(1)[2] = "1"

\* Every discovered file has its result collected and its report written.
AllReported ==
    /\ Len(all_results) = Len(docx_files)
    /\ Collected = Discovered
    /\ \A k \in 1..Len(all_results) :
         NameAtPosition(k) \in DOMAIN outfiles /\ outfiles[NameAtPosition(k)] # <<>>

\* C18: with fair scheduling, calls that return or fail and no interrupt, a
\* run that has discovered N > 0 files and has its output directory
\* eventually reaches Done unless a report file cannot be opened, and the
\* summary is printed only when all N results are collected and all N
\* reports written.
C18_EventuallyDone ==
    /\ (pc = "pool") ~> (AtDone \/ exc = "OSError")
    /\ [](AtDone => AllReported)

\* The same for a run whose parallelism was detected.
C18_EventuallyDoneDetected ==
    /\ (pc = "pool" /\ cpu_count # None) ~> (AtDone \/ exc = "OSError")
    /\ [](AtDone => AllReported)

\* The generation call of f has been made and has not returned.
InGeneration(f) == f \in DOMAIN futures /\ futures[f].state = "generating"

\* The result of g has been collected and its report written.
Reported(g) ==
    \E k \in 1..Len(all_results) :
        /\ all_results[k].file_path = g
        /\ NameAtPosition(k) \in DOMAIN outfiles
        /\ outfiles[NameAtPosition(k)] # <<>>

\* The generation call of the hung file is out.
HungOut == \E f \in AllPaths : Hung(f) /\ InGeneration(f)

\* Every task that has completed has its result collected and its report
\* written.
CompletedAreReported ==
    \A g \in DOMAIN futures : futures[g].state = "done" => Reported(g)

\* C19: in a run without interrupt where the generation call of one file
\* never returns, as long as the call is out the run is not at Done, the
\* summary is not printed, the process has not ended, the file has no
\* result and no report and its task holds a worker of the pool; the call
\* stays out forever; and time and again every task that has completed has
\* its result collected and its report written, unless a report file
\* cannot be opened.
C19_HungGenerationBlocksDone ==
    /\ [](\A f \in AllPaths :
            (Hung(f) /\ InGeneration(f)) =>
               /\ ~AtDone
               /\ pc # "exit"
               /\ f \notin Collected
               /\ ~Reported(f)
               /\ f \in Running
               /\ Cardinality(Running \ {f}) < executor.max_workers)
    /\ [][\A f \in AllPaths : (Hung(f) /\ InGeneration(f)) => InGeneration(f)']_vars
    /\ HungOut ~> (CompletedAreReported \/ exc = "OSError")

\* The generation call of one file is out and the report of another file,
\* whose task completed meanwhile, is written; the loop waits for the next
\* result.
C19_Witness ==
    /\ pc = "collect"
    /\ HungOut
    /\ \E g \in AllPaths : ~Hung(g) /\ Reported(g)

\* C20: within one run no file's result is collected twice, every result
\* belongs to a discovered file, and the output directory holds as many
\* files as reports were opened, so the report names are pairwise distinct,
\* also when two files share a stem, and no report overwrites another; at
\* Done every discovered file has exactly one result and one report.
C20_ResultsMatchFiles ==
    /\ \A j, k \in 1..Len(all_results) :
         j # k => all_results[j].file_path # all_results[k].file_path
    /\ \A k \in 1..Len(all_results) : all_results[k].file_path \in Discovered
    /\ Len(all_results) <= Len(docx_files)
    /\ Cardinality(DOMAIN outfiles) \in {file_counter - 1, file_counter}
    /\ Cardinality(DOMAIN outfiles) = file_counter - 1 =>
          pc = "open" \/ exc = "OSError" \/ Interrupted
    /\ AtDone =>
          /\ {all_results[k].file_path : k \in 1..Len(all_results)} = Discovered
          /\ Len(all_results) = Len(docx_files)
          /\ Cardinality(ReportsWritten) = Len(docx_files)

\* Two documents of the same stem in different subdirectories have both
\* been reported, under the names 01_x_analysis.md and 02_x_analysis.md.
C20_Witness ==
    /\ AtDone
    /\ Len(docx_files) = 2
    /\ PathStem(docx_files[1]) = PathStem(docx_files[2])
    /\ PathParts(docx_files[1])[2] # PathParts(docx_files[2])[2]
    /\ DOMAIN outfiles = {<<"0", "1", "_", "x", "_analysis.md">>,
                          <<"0", "2", "_", "x", "_analysis.md">>}
    /\ \A n \in DOMAIN outfiles : outfiles[n] # <<>>

====
